---- MODULE Spec2Model ----
(***************************************************************************)
(* Model of preprocessing/metadata.py: the Metadata class that scans a     *)
(* directory of event files, selects training variables, derives           *)
(* reweighting histograms and class weights, samples files for the         *)
(* statistics step and writes / reloads the JSON descriptor.               *)
(*                                                                         *)
(* Strings that the code inspects (paths, field names, attribute names)    *)
(* are sequences of tokens, so that 'x in s', s.endswith(x), s.startswith  *)
(* (x) and re.match are computed rather than assumed.  Quotients of event  *)
(* counts are kept as reduced fractions <<num, den>>.                      *)
(***************************************************************************)
EXTENDS Integers, Sequences, FiniteSets, TLC

VARIABLES
    self,     \* the producing Metadata object: attribute name -> value (self.__dict__)
    fs,       \* the directory tree under _inputdir: walk slot -> get_num_events result
    schema,   \* column names of the first input file (root2array(...).columns)
    group_order, \* the order in which 'for v_group in self.var_groups' yields the keys
    rec,      \* rows root2array returns for the reweighting step: row kind -> multiplicity
    pc,       \* position of the caller inside produceMetadata
    stages,   \* the methods produceMetadata has completed so far, in order
    sample,   \* the locals of the last _make_infos: _inputfiles, _num_events, frac
    doc,      \* the descriptor file: [written, md]
    ld,       \* a second Metadata object, the one loadMetadata is called on
    ldBefore  \* [called, dict]: ld.__dict__ as it was when loadMetadata was last called

vars == <<self, fs, schema, group_order, rec, pc, stages, sample, doc, ld, ldBefore>>

(***************************************************************************)
(* Bounds of the model.                                                    *)
(***************************************************************************)
MaxFiles == 3      \* files present in the directory tree
MaxFields == 3     \* columns of the schema (SpecVars)
MaxGroups == 2     \* groups in var_groups (SpecVars)

(***************************************************************************)
(* Python values.                                                          *)
(***************************************************************************)
None == "None"

\* s.startswith(t) on token sequences
startswith(s, t) == Len(s) >= Len(t) /\ SubSeq(s, 1, Len(t)) = t

\* s.endswith(t)
endswith(s, t) == Len(s) >= Len(t) /\ SubSeq(s, Len(s) - Len(t) + 1, Len(s)) = t

\* 't in s' for a one-token marker t
contains(s, t) == \E i \in 1..Len(s) : s[i] = t

\* sum(list)
RECURSIVE sum(_)
sum(s) == IF s = <<>> THEN 0 ELSE Head(s) + sum(Tail(s))

\* obj.k = v, creating the attribute when it does not exist yet
setattr(obj, k, v) == [x \in DOMAIN obj \cup {k} |-> IF x = k THEN v ELSE obj[x]]

\* attribute names
K_inputdir        == <<"_", "inputdir">>
K_treename        == <<"treename">>
K_reweight_var    == <<"reweight_var">>
K_reweight_events == <<"_", "reweight_events">>
K_reweight_bins   == <<"_", "reweight_bins">>
K_metadata_events == <<"_", "metadata_events">>
K_selection       == <<"selection">>
K_var_groups      == <<"var_groups">>
K_var_blacklist   == <<"var_blacklist">>
K_label_branches  == <<"label_branches">>
K_inputfiles      == <<"inputfiles">>
K_num_events      == <<"num_events">>
K_total_events    == <<"_", "total_events">>
K_all_branches    == <<"_", "all_branches">>
K_var_branches    == <<"var_branches">>
K_var_sizes       == <<"var_sizes">>
K_reweight_info   == <<"reweight_info">>
K_branches_info   == <<"branches_info">>

(***************************************************************************)
(* File enumerator: updateFilelist.                                        *)
(***************************************************************************)
ROOT == <<".root">>

\* os.walk(_inputdir): the directories in traversal order, each with the
\* file names it may hold.  A slot <<d, j>> is present when fs defines it.
Walk == <<
    [dp |-> <<"in">>,
     filenames |-> << <<"a", ".root">>, <<"b", ".txt">>,
                      <<"failed", ".root">>, <<"test_sample", ".root">> >>],
    [dp |-> <<"in", "/", "failed">>,
     filenames |-> << <<"a", ".root">> >>],
    [dp |-> <<"in", "/", "ignore">>,
     filenames |-> << <<"a", ".root">> >>],
    [dp |-> <<"in", "/", "test_sample">>,
     filenames |-> << <<"a", ".root">>, <<"c", ".root">> >>],
    [dp |-> <<"in", "/", "test_sample", "/", "failed">>,
     filenames |-> << <<"a", ".root">> >>] >>

Slots == {s \in (1..Len(Walk)) \X (1..4) : s[2] <= Len(Walk[s[1]].filenames)}

\* os.path.join(dp, f)
join(dp, f) == dp \o <<"/">> \o f

fullpath(s) == join(Walk[s[1]].dp, Walk[s[1]].filenames[s[2]])

\* mutant: the guard 'test_sample and "test_sample" not in dp' is missing
SkipDir_no_test_guard(dp, test_sample) ==
    \/ contains(dp, "failed") \/ contains(dp, "ignore")
    \/ (~test_sample /\ contains(dp, "test_sample"))

\* the guards of the os.walk loop: directories that are skipped as a whole
SkipDir(dp, test_sample) ==
    \/ contains(dp, "failed") \/ contains(dp, "ignore")
    \/ (~test_sample /\ contains(dp, "test_sample"))
    \/ (test_sample /\ ~contains(dp, "test_sample"))

\* 'if nevts:' on an integer count
Truthy(nevts) == nevts # 0

\* a file that passes the directory and extension filters
Candidate(tree, s, test_sample) ==
    /\ s \in DOMAIN tree
    /\ ~SkipDir(Walk[s[1]].dp, test_sample)
    /\ endswith(Walk[s[1]].filenames[s[2]], ROOT)

\* whether the loop body appends the file in slot s
Listed(tree, s, test_sample) ==
    Candidate(tree, s, test_sample) /\ Truthy(tree[s])

\* mutant: a falsy count ends the loop over the directory's files
RECURSIVE ScanFiles_abort(_, _, _, _)
ScanFiles_abort(tree, d, j, test_sample) ==
    IF j > Len(Walk[d].filenames) THEN <<>>
    ELSE IF Candidate(tree, <<d, j>>, test_sample) /\ ~Truthy(tree[<<d, j>>]) THEN <<>>
    ELSE (IF Listed(tree, <<d, j>>, test_sample) THEN << <<d, j>> >> ELSE <<>>)
         \o ScanFiles_abort(tree, d, j + 1, test_sample)

\* the inner loop over filenames of directory d, from file j on
RECURSIVE ScanFiles(_, _, _, _)
ScanFiles(tree, d, j, test_sample) ==
    IF j > Len(Walk[d].filenames) THEN <<>>
    ELSE (IF Listed(tree, <<d, j>>, test_sample) THEN << <<d, j>> >> ELSE <<>>)
         \o ScanFiles(tree, d, j + 1, test_sample)

\* the outer loop over directories, from directory d on
RECURSIVE ScanDirs(_, _, _)
ScanDirs(tree, d, test_sample) ==
    IF d > Len(Walk) THEN <<>>
    ELSE ScanFiles(tree, d, 1, test_sample) \o ScanDirs(tree, d + 1, test_sample)

\* mutant: the lists are not reset, a second call appends to the first
Filelist_accumulate(obj, tree, test_sample) ==
    LET kept == ScanDirs(tree, 1, test_sample)
        old == K_total_events \in DOMAIN obj
        files == (IF old THEN obj[K_inputfiles] ELSE <<>>)
                 \o [i \in 1..Len(kept) |-> fullpath(kept[i])]
        counts == (IF old THEN obj[K_num_events] ELSE <<>>)
                  \o [i \in 1..Len(kept) |-> tree[kept[i]]]
    IN  setattr(setattr(setattr(obj, K_inputfiles, files),
                        K_num_events, counts),
                K_total_events, sum(counts))

\* the attributes updateFilelist assigns
Filelist(obj, tree, test_sample) ==
    LET kept == ScanDirs(tree, 1, test_sample)
        files == [i \in 1..Len(kept) |-> fullpath(kept[i])]
        counts == [i \in 1..Len(kept) |-> tree[kept[i]]]
    IN  setattr(setattr(setattr(obj, K_inputfiles, files),
                        K_num_events, counts),
                K_total_events, sum(counts))

(***************************************************************************)
(* Variable selector: _make_varlist.                                       *)
(***************************************************************************)
\* field names
fj_pt        == <<"fj", "_", "pt">>
fj_eta       == <<"fj", "_", "eta">>
pfcand_ptrel == <<"pfcand", "_", "ptrel">>
label_A      == <<"label", "_", "A">>
label_B      == <<"label", "_", "B">>

Fields == {fj_pt, fj_eta, pfcand_ptrel, label_A, label_B}

\* A pattern is a literal prefix, optionally closed by '$'.
\* re.match(regex, k): the pattern must match at the START of k; what follows
\* the match is free unless the pattern ends in '$'.
re_match(regex, k) ==
    /\ startswith(k, regex.lit)
    /\ (regex.end => Len(k) = Len(regex.lit))

\* A Python sequence whose kind matters is [kind, items]: the values of
\* var_groups are tuples (patterns, size), {group_name:(regex, num)}.
py_tuple(items) == [kind |-> "tuple", items |-> items]
py_list(items)  == [kind |-> "list", items |-> items]

\* the loop over the patterns var_groups[v_group][0] of one group: does any
\* of them match k
GroupMatches(group, k) ==
    \E i \in 1..Len(group.items[1]) : re_match(group.items[1][i], k)

\* mutant: the outer loop lacks 'if matched: break', every matching group appends
RECURSIVE Appends_no_break(_, _, _)
Appends_no_break(groups, k, g) ==
    IF g > Len(groups) THEN <<>>
    ELSE (IF GroupMatches(groups[g], k) THEN <<g>> ELSE <<>>)
         \o Appends_no_break(groups, k, g + 1)

\* the loops over var_groups and their patterns for one field k, from group g
\* on: the groups for which the body appends k.  The first match sets
\* matched and breaks out of both loops, so at most one group is returned.
RECURSIVE Appends(_, _, _)
Appends(groups, k, g) ==
    IF g > Len(groups) THEN <<>>
    ELSE IF GroupMatches(groups[g], k) THEN <<g>>
    ELSE Appends(groups, k, g + 1)

\* var_branches after the loop over _all_branches: k once per append
RECURSIVE Selected(_, _)
Selected(branches, groups) ==
    IF branches = <<>> THEN <<>>
    ELSE [i \in 1..Len(Appends(groups, Head(branches), 1)) |-> Head(branches)]
         \o Selected(Tail(branches), groups)

\* var_sizes[k] after the loops: the size stored by the last append of k
SizeOf(groups, k) ==
    LET hits == Appends(groups, k, 1) IN groups[hits[Len(hits)]].items[2]

\* list.remove(var): drops the first occurrence, ValueError is swallowed
RECURSIVE remove(_, _)
remove(list, var) ==
    IF list = <<>> THEN <<>>
    ELSE IF Head(list) = var THEN Tail(list)
    ELSE <<Head(list)>> \o remove(Tail(list), var)

\* mutant: the try encloses the whole loop, the first ValueError ends it
RECURSIVE RemoveAll_stop_on_missing(_, _)
RemoveAll_stop_on_missing(list, drop) ==
    IF drop = <<>> THEN list
    ELSE IF \A i \in 1..Len(list) : list[i] # Head(drop) THEN list
    ELSE RemoveAll_stop_on_missing(remove(list, Head(drop)), Tail(drop))

\* the loop 'for var in var_blacklist + label_branches: remove'
RECURSIVE RemoveAll(_, _)
RemoveAll(list, drop) ==
    IF drop = <<>> THEN list
    ELSE RemoveAll(remove(list, Head(drop)), Tail(drop))

Range(s) == {s[i] : i \in 1..Len(s)}

\* the attributes _make_varlist assigns, given the columns of inputfiles[0]
\* and the order in which the dict var_groups is iterated
Varlist(obj, columns, order) ==
    LET groups == [i \in 1..Len(order) |-> obj[K_var_groups][order[i]]]
        picked == Selected(columns, groups)
        sizes == [k \in Range(picked) |-> SizeOf(groups, k)]
        final == RemoveAll(picked, obj[K_var_blacklist] \o obj[K_label_branches])
    IN  setattr(setattr(setattr(obj, K_all_branches, columns),
                        K_var_branches, final),
                K_var_sizes, sizes)

(***************************************************************************)
(* Reweighting calculator: _make_weights and _prepare_reweight_info.       *)
(***************************************************************************)
\* A float is an exact fraction <<numerator, denominator>>, denominator > 0.
RECURSIVE gcd(_, _)
gcd(a, b) == IF b = 0 THEN a ELSE gcd(b, a % b)

Frac(n, d) == LET g == gcd(n, d) IN IF n = 0 THEN <<0, 1>> ELSE <<n \div g, d \div g>>

\* np.asfarray / float(): an integer count as a float
asfloat(n) == <<n, 1>>

FDiv(a, b) == Frac(a[1] * b[2], a[2] * b[1])
FLess(a, b) == a[1] * b[2] < b[1] * a[2]
FMin(S) == CHOOSE m \in S : \A x \in S : ~FLess(x, m)

\* The rows root2array returns are a bag of row kinds; a row kind gives the
\* value of every column read (the label columns and the reweight variable).
Row(a, b, x) ==
    [c \in {label_A, label_B, fj_pt} |->
        IF c = label_A THEN a ELSE IF c = label_B THEN b ELSE x]

RECURSIVE BagSum(_, _)
BagSum(bag, S) ==
    IF S = {} THEN 0
    ELSE LET r == CHOOSE r \in S : TRUE IN bag[r] + BagSum(bag, S \ {r})

\* mutant: the mask keeps every nonzero value, pos = (rec[label] != 0)
Pos_nonzero(rows, label) == {r \in DOMAIN rows : r[label] # 0}

\* pos = (rec[label] == 1): the row kinds the mask keeps
Pos(rows, label) == {r \in DOMAIN rows : r[label] = 1}

\* np.histogram: bin i is [edges[i], edges[i+1]), the last bin also holds its
\* right edge; values outside [min edge, max edge] are dropped
InBin(x, edges, i) ==
    /\ edges[i] <= x
    /\ IF i = Len(edges) - 1 THEN x <= edges[i + 1] ELSE x < edges[i + 1]

np_histogram(rows, kinds, var, edges) ==
    [i \in 1..(Len(edges) - 1) |->
        BagSum(rows, {r \in kinds : InBin(r[var], edges, i)})]

\* mutant: only the last bin is tested, min(hist[-1:]) < 10
TailTooSmall_last_bin(hist) == FLess(hist[Len(hist)], <<10, 1>>)

\* min(hist[-2:]) < 10
TailThreshold == 10

TailTooSmall(hist) ==
    LET n == Len(hist)
        tail == {hist[i] : i \in (IF n >= 2 THEN n - 1 ELSE 1)..n}
    IN  FLess(FMin(tail), asfloat(TailThreshold))

\* mutant: ref_val = np.min(hist), the empty bins not filtered out
RefVal_unfiltered(hist) == FMin({hist[i] : i \in 1..Len(hist)})

\* ref_val = np.min([x for x in hist if x > 0])
RefVal(hist) == FMin({hist[i] : i \in {j \in 1..Len(hist) : FLess(asfloat(0), hist[j])}})

\* for i in range(len(hist)): if hist[i] != 0: result[label]['hist'][i] = ref_val / hist[i]
\* result[label]['hist'] is hist[:], a view of the same buffer, so the loop
\* reads and writes one array.
RECURSIVE FlattenLoop(_, _, _)
FlattenLoop(hist, ref_val, i) ==
    IF i > Len(hist) THEN hist
    ELSE FlattenLoop(IF hist[i] # asfloat(0)
                     THEN [hist EXCEPT ![i] = FDiv(ref_val, hist[i])]
                     ELSE hist,
                     ref_val, i + 1)

\* the per-bin weights of one label, from its float histogram
BinWeights(hist) == FlattenLoop(hist, RefVal(hist), 1)

\* the first loop over label_branches, from label l on.  st carries result and
\* class_events; exc names the exception that ended the loop, "none" otherwise.
RECURSIVE LabelLoop(_, _, _, _)
LabelLoop(obj, rows, l, st) ==
    LET labels == obj[K_label_branches] IN
    IF l > Len(labels) THEN st
    ELSE
      LET label == labels[l]
          edges == obj[K_reweight_bins]
          counts == np_histogram(rows, Pos(rows, label), obj[K_reweight_var], edges)
          hist == [i \in 1..Len(counts) |-> asfloat(counts[i])]
          entry == [bin_edges |-> edges, hist |-> hist, raw_hist |-> hist]
      IN  IF TailTooSmall(hist)
          THEN [st EXCEPT !.exc = "RuntimeError"]
          ELSE LabelLoop(obj, rows, l + 1,
                 [exc |-> "none",
                  result |-> setattr(st.result, label,
                                     [entry EXCEPT !.hist = BinWeights(hist)]),
                  class_events |-> setattr(st.class_events, label, RefVal(hist))])

\* mutant: the quotient inverted, class_events[label] / float(min_nevt)
ClassWgt_inverted(class_events, label) ==
    FDiv(class_events[label], FMin({class_events[k] : k \in DOMAIN class_events}))

\* class_wgt = float(min_nevt) / class_events[label]
ClassWgt(class_events, label) ==
    FDiv(FMin({class_events[k] : k \in DOMAIN class_events}), class_events[label])

\* _prepare_reweight_info(rec): [exc, result]
prepare_reweight_info(obj, rows) ==
    LET st == LabelLoop(obj, rows, 1,
                        [exc |-> "none", result |-> <<>>, class_events |-> <<>>])
    IN  IF st.exc # "none" THEN [exc |-> st.exc, result |-> <<>>]
        ELSE IF DOMAIN st.class_events = {}
        THEN [exc |-> "ValueError", result |-> <<>>]     \* min() of an empty sequence
        ELSE [exc |-> "none",
              result |-> [label \in DOMAIN st.result |->
                            [bin_edges |-> st.result[label].bin_edges,
                             hist |-> st.result[label].hist,
                             raw_hist |-> st.result[label].raw_hist,
                             class_wgt |-> ClassWgt(st.class_events, label)]]]

(***************************************************************************)
(* Statistics calculator: the file sampling of _make_infos.  The statistics *)
(* themselves are functions of the values read and are not modelled; each   *)
(* variable's record keeps the number of rows they are computed over.       *)
(***************************************************************************)
\* int(x) of a non-negative quotient n/d
floordiv(n, d) == n \div d

\* np.random.shuffle(np.arange(n)): any permutation of the file indices
Shuffles(n) == {p \in [1..n -> 1..n] : \A i, j \in 1..n : p[i] = p[j] => i = j}

\* file_inds[:nfiles]
Take(seq, n) == SubSeq(seq, 1, IF n < Len(seq) THEN n ELSE Len(seq))

\* nfiles = int(5 * float(_metadata_events) / _total_events * len(inputfiles))
NFiles(obj) ==
    floordiv(5 * obj[K_metadata_events] * Len(obj[K_inputfiles]), obj[K_total_events])

\* the locals after the 'if self._metadata_events > 0' block, for the
\* shuffled order file_inds; exc is the exception raised on the way
SampleFiles(obj, file_inds) ==
    LET files == obj[K_inputfiles]
        nums == obj[K_num_events]
        all == [exc |-> "none", inputfiles |-> files, num_events |-> nums,
                frac |-> asfloat(1)]
    IN  IF obj[K_metadata_events] > 0
        THEN IF obj[K_total_events] = 0
             THEN [all EXCEPT !.exc = "ZeroDivisionError"]
             ELSE LET inds == Take(file_inds, NFiles(obj))
                      kept_files == [i \in 1..Len(inds) |-> files[inds[i]]]
                      kept_events == [i \in 1..Len(inds) |-> nums[inds[i]]]
                  IN  IF sum(kept_events) = 0
                      THEN [exc |-> "ZeroDivisionError", inputfiles |-> kept_files,
                            num_events |-> kept_events, frac |-> asfloat(1)]
                      ELSE [exc |-> "none", inputfiles |-> kept_files,
                            num_events |-> kept_events,
                            frac |-> Frac(obj[K_metadata_events], sum(kept_events))]
        ELSE all

\* rows read over the sampled files: stop = int(frac * n) for each
RowsRead(s) ==
    sum([i \in 1..Len(s.num_events) |->
            LET stop == floordiv(s.frac[1] * s.num_events[i], s.frac[2])
            IN  IF stop < s.num_events[i] THEN stop ELSE s.num_events[i]])

\* _make_infos for the shuffled order file_inds: [exc, locals, branches_info]
make_infos_result(obj, file_inds) ==
    LET s == SampleFiles(obj, file_inds)
        vs == obj[K_var_branches]
    IN  IF s.exc # "none" THEN [exc |-> s.exc, locals |-> s, branches_info |-> <<>>]
        ELSE IF vs # <<>> /\ (Len(s.inputfiles) = 0 \/ RowsRead(s) = 0)
        THEN [exc |-> "ValueError", locals |-> s, branches_info |-> <<>>]
        ELSE [exc |-> "none", locals |-> s,
              branches_info |-> [v \in Range(vs) |-> [nrows |-> RowsRead(s)]]]

(***************************************************************************)
(* Metadata store: writeMetadata and loadMetadata.                         *)
(***************************************************************************)
\* k.startswith('_')
private(k) == startswith(k, <<"_">>)

\* What json.load reads back of what json.dump wrote for attribute k.
\* Lists, numbers, None and dicts keyed by strings come back as they were; a
\* tuple is written as an array and comes back as a list, so the values of
\* var_groups come back as two-element lists.
json_value(k, v) ==
    IF k = K_var_groups THEN [n \in DOMAIN v |-> py_list(v[n].items)] ELSE v

\* json.dump(self.__dict__, ...)
json_dump(obj) == [k \in DOMAIN obj |-> json_value(k, obj[k])]

\* mutant: the loop lacks "if k.startswith('_'): continue"
load_all(obj, md) ==
    [k \in DOMAIN obj \cup DOMAIN md |-> IF k \in DOMAIN md THEN md[k] ELSE obj[k]]

\* the loop of loadMetadata over the keys of the parsed document
load(obj, md) ==
    LET assigned == {k \in DOMAIN md : ~private(k)}
    IN  [k \in DOMAIN obj \cup assigned |-> IF k \in assigned THEN md[k] ELSE obj[k]]

(***************************************************************************)
(* Inputs: constructor arguments, directory trees, schemas and rows.       *)
(***************************************************************************)
\* get_num_events results: 0 is the falsy result of an unreadable file
Nevts == {0, 3, 7}

\* directory trees with at most MaxFiles files
Trees ==
    UNION {[P -> Nevts] : P \in {Q \in SUBSET Slots : Cardinality(Q) <= MaxFiles}}

\* the tree of the single-stage specifications
GoodTree == [s \in {<<1, 1>>, <<1, 3>>, <<4, 1>>} |-> IF s = <<1, 1>> THEN 3 ELSE 7]

\* patterns
R_fj     == [lit |-> <<"fj", "_">>, end |-> FALSE]
R_fj_pt  == [lit |-> fj_pt, end |-> TRUE]
R_pfcand == [lit |-> <<"pfcand">>, end |-> FALSE]
R_label  == [lit |-> <<"label">>, end |-> FALSE]
R_pt     == [lit |-> <<"pt">>, end |-> FALSE]
R_any    == [lit |-> <<>>, end |-> FALSE]

\* var_groups entries, name: (patterns, size)
GroupNames == {"fj", "pt", "pfcand", "label", "any"}

GroupValue(name) ==
    CASE name = "fj"     -> py_tuple(<< <<R_fj>>, 1 >>)
      [] name = "pt"     -> py_tuple(<< <<R_fj_pt, R_pfcand>>, 50 >>)
      [] name = "pfcand" -> py_tuple(<< <<R_pt, R_pfcand>>, 100 >>)
      [] name = "label"  -> py_tuple(<< <<R_label>>, 2 >>)
      [] name = "any"    -> py_tuple(<< <<R_any>>, 20 >>)

\* the dict var_groups with the given keys
GroupDict(names) == [n \in names |-> GroupValue(n)]

\* duplicate-free sequences over S of length at most n
SeqsUpTo(S, n) ==
    UNION {{q \in [1..m -> S] : \A i, j \in 1..m : q[i] = q[j] => i = j} : m \in 0..n}

\* the iteration orders of the dicts var_groups of at most MaxGroups keys
GroupOrders == SeqsUpTo(GroupNames, MaxGroups)

\* the columns of a file: field names are unique
Schemas == SeqsUpTo(Fields, MaxFields)

FullSchema == <<fj_pt, fj_eta, pfcand_ptrel, label_A, label_B>>

Blacklists == {<<>>, <<fj_eta>>, <<pfcand_ptrel, fj_pt, pfcand_ptrel>>}

LabelLists == {<<label_A, label_B>>, <<label_B>>}

\* histogram shapes the rows are generated from
Counts == {0, 5, 10, 20, 50, 100}
Hists == [1..4 -> Counts]
FewHists == {<<50, 100, 100, 50>>, <<20, 20, 20, 20>>, <<100, 100, 5, 3>>, <<10, 0, 10, 10>>}

\* rows with hA[x+1] rows of label A and hB[x+1] rows of label B at value x;
\* with extra, also rows on the last right edge, outside the bin range,
\* without any label and with the label column set to 2
MakeRec(hA, hB, extra) ==
    LET base == {Row(1, 0, x) : x \in 0..3} \cup {Row(0, 1, x) : x \in 0..3}
        more == {Row(1, 0, 4), Row(1, 0, 5), Row(0, 0, 1), Row(2, 0, 3)}
    IN  [r \in base \cup (IF extra THEN more ELSE {}) |->
            IF r \in base
            THEN (IF r[label_A] = 1 THEN hA[r[fj_pt] + 1] ELSE hB[r[fj_pt] + 1])
            ELSE IF r = Row(1, 0, 4) THEN 7
            ELSE IF r = Row(1, 0, 5) THEN 9
            ELSE 12]

GoodRec  == MakeRec(<<50, 100, 10, 20>>, <<50, 100, 100, 50>>, TRUE)
ShortRec == MakeRec(<<50, 100, 10, 20>>, <<100, 100, 5, 3>>, FALSE)

BinEdges == {<<0, 1, 2, 3, 4>>, <<0, 2, 4>>}

\* Metadata.__init__
Constructor(inputdir, reweight_bins, metadata_events, var_groups, var_blacklist, label_list) ==
    [k \in {K_inputdir, K_treename, K_reweight_var, K_reweight_events,
            K_reweight_bins, K_metadata_events, K_selection, K_var_groups,
            K_var_blacklist, K_label_branches, K_inputfiles, K_num_events} |->
        CASE k = K_inputdir        -> inputdir
          [] k = K_treename        -> "deepntuplizer/tree"
          [] k = K_reweight_var    -> fj_pt
          [] k = K_reweight_events -> 100000
          [] k = K_reweight_bins   -> reweight_bins
          [] k = K_metadata_events -> metadata_events
          [] k = K_selection       -> None
          [] k = K_var_groups      -> var_groups
          [] k = K_var_blacklist   -> var_blacklist
          [] k = K_label_branches  -> label_list
          [] k = K_inputfiles      -> None
          [] k = K_num_events      -> None]

DefaultOrder == <<"fj", "pfcand">>
DefaultGroups == GroupDict(Range(DefaultOrder))

\* the object loadMetadata is called on: constructed for another directory
Loader == Constructor(<<"elsewhere">>, <<0, 4>>, 100000, GroupDict({}), <<>>, <<>>)

NoSample == [exc |-> "none", inputfiles |-> <<>>, num_events |-> <<>>, frac |-> asfloat(1)]

(***************************************************************************)
(* Operations.                                                             *)
(***************************************************************************)
\* a caller's updateFilelist(test_sample) on the producing object
updateFilelist(test_sample) ==
    /\ pc = "idle"
    /\ self' = Filelist(self, fs, test_sample)
    /\ UNCHANGED <<fs, schema, group_order, rec, pc, stages, sample, doc, ld, ldBefore>>

\* produceMetadata, first stage: self.updateFilelist()
produce_updateFilelist ==
    /\ pc = "idle"
    /\ self' = Filelist(self, fs, FALSE)
    /\ pc' = "make_varlist"
    /\ stages' = Append(stages, "updateFilelist")
    /\ UNCHANGED <<fs, schema, group_order, rec, sample, doc, ld, ldBefore>>

\* produceMetadata, second stage: self._make_varlist(); inputfiles[0] raises
\* IndexError on an empty file list
produce_make_varlist ==
    /\ pc = "make_varlist"
    /\ IF Len(self[K_inputfiles]) = 0
       THEN /\ pc' = "failed"
            /\ UNCHANGED <<self, stages>>
       ELSE /\ self' = Varlist(self, schema, group_order)
            /\ pc' = "make_weights"
            /\ stages' = Append(stages, "_make_varlist")
    /\ UNCHANGED <<fs, schema, group_order, rec, sample, doc, ld, ldBefore>>

\* mutant: the exceptions of _prepare_reweight_info are logged, not raised
make_weights_result_logged(obj, rows) ==
    IF obj[K_reweight_events] > 0 /\ obj[K_total_events] = 0
    THEN [exc |-> "ZeroDivisionError", obj |-> obj]
    ELSE LET r == prepare_reweight_info(obj, rows)
         IN  IF r.exc # "none" THEN [exc |-> "none", obj |-> obj]
             ELSE [exc |-> "none", obj |-> setattr(obj, K_reweight_info, r.result)]

\* what _make_weights leaves behind: [exc, obj]
make_weights_result(obj, rows) ==
    IF obj[K_reweight_events] > 0 /\ obj[K_total_events] = 0
    THEN [exc |-> "ZeroDivisionError", obj |-> obj]
    ELSE LET r == prepare_reweight_info(obj, rows)
         IN  IF r.exc # "none" THEN [exc |-> r.exc, obj |-> obj]
             ELSE [exc |-> "none", obj |-> setattr(obj, K_reweight_info, r.result)]

\* produceMetadata, third stage: self._make_weights()
produce_make_weights ==
    /\ pc = "make_weights"
    /\ LET r == make_weights_result(self, rec)
       IN  /\ self' = r.obj
           /\ pc' = IF r.exc = "none" THEN "make_infos" ELSE "failed"
           /\ stages' = IF r.exc = "none" THEN Append(stages, "_make_weights") ELSE stages
    /\ UNCHANGED <<fs, schema, group_order, rec, sample, doc, ld, ldBefore>>

\* produceMetadata, fourth stage: self._make_infos()
produce_make_infos ==
    /\ pc = "make_infos"
    /\ \E file_inds \in Shuffles(Len(self[K_inputfiles])) :
         LET r == make_infos_result(self, file_inds)
         IN  /\ sample' = r.locals
             /\ IF r.exc = "none"
                THEN /\ self' = setattr(self, K_branches_info, r.branches_info)
                     /\ pc' = "writeMetadata"
                     /\ stages' = Append(stages, "_make_infos")
                ELSE /\ pc' = "failed"
                     /\ UNCHANGED <<self, stages>>
    /\ UNCHANGED <<fs, schema, group_order, rec, doc, ld, ldBefore>>

\* produceMetadata, last step: self.writeMetadata(filepath)
produce_writeMetadata ==
    /\ pc = "writeMetadata"
    /\ doc' = [written |-> TRUE, md |-> json_dump(self)]
    /\ pc' = "done"
    /\ stages' = Append(stages, "writeMetadata")
    /\ UNCHANGED <<self, fs, schema, group_order, rec, sample, ld, ldBefore>>

\* loadMetadata(filepath) on the second object, once the file exists
loadMetadata ==
    /\ doc.written
    /\ ld' = load(ld, doc.md)
    /\ ldBefore' = [called |-> TRUE, dict |-> ld]
    /\ UNCHANGED <<self, fs, schema, group_order, rec, pc, stages, sample, doc>>

Next ==
    \/ \E test_sample \in BOOLEAN : updateFilelist(test_sample)
    \/ produce_updateFilelist
    \/ produce_make_varlist
    \/ produce_make_weights
    \/ produce_make_infos
    \/ produce_writeMetadata
    \/ loadMetadata

\* the state in which the producing object obj has completed the given
\* stages of produceMetadata and nothing has been written or loaded
At(tree, columns, order, rows, obj, position, completed) ==
    /\ fs = tree
    /\ schema = columns
    /\ group_order = order
    /\ rec = rows
    /\ self = obj
    /\ pc = position
    /\ stages = completed
    /\ sample = NoSample
    /\ doc = [written |-> FALSE, md |-> <<>>]
    /\ ld = Loader
    /\ ldBefore = [called |-> FALSE, dict |-> Loader]

\* Whole program: any directory tree, two row samples, sampling on and off.
Init ==
    \E tree \in Trees, rows \in {GoodRec, ShortRec}, metadata_events \in {0, 1, 20} :
        At(tree, FullSchema, DefaultOrder, rows,
           Constructor(<<"in">>, <<0, 1, 2, 3, 4>>, metadata_events,
                       DefaultGroups, <<fj_eta>>, <<label_A, label_B>>),
           "idle", <<>>)

Spec == Init /\ [][Next]_vars

\* Variable selection alone: the object has listed the files of GoodTree and
\* runs _make_varlist, for any schema, group rules, blacklist and label list.
InitVars ==
    \E columns \in Schemas, order \in GroupOrders,
       var_blacklist \in Blacklists, label_list \in LabelLists :
        At(GoodTree, columns, order, GoodRec,
           Filelist(Constructor(<<"in">>, <<0, 1, 2, 3, 4>>, 20, GroupDict(Range(order)),
                                var_blacklist, label_list),
                    GoodTree, FALSE),
           "make_varlist", <<"updateFilelist">>)

NextVars == produce_make_varlist

SpecVars == InitVars /\ [][NextVars]_vars

\* Reweighting alone: the object has listed the files of GoodTree, selected
\* its variables and runs _make_weights, for any histogram of one label, a
\* few histograms of the other and two bin layouts.
InitRW ==
    \E focus \in {label_A, label_B}, h \in Hists, g \in FewHists,
       extra \in BOOLEAN, reweight_bins \in BinEdges :
        At(GoodTree, FullSchema, DefaultOrder,
           IF focus = label_A THEN MakeRec(h, g, extra) ELSE MakeRec(g, h, extra),
           Varlist(Filelist(Constructor(<<"in">>, reweight_bins, 20, DefaultGroups,
                                        <<fj_eta>>, <<label_A, label_B>>),
                            GoodTree, FALSE),
                   FullSchema, DefaultOrder),
           "make_weights", <<"updateFilelist", "_make_varlist">>)

NextRW == produce_make_weights

SpecRW == InitRW /\ [][NextRW]_vars

(***************************************************************************)
(* Properties.                                                             *)
(***************************************************************************)
HasReweightInfo == K_reweight_info \in DOMAIN self
reweight_info == self[K_reweight_info]
Labels == Range(self[K_label_branches])

\* the number of sampled rows of a label per bin of the reweight variable
Counted(label) ==
    np_histogram(rec, Pos(rec, label), self[K_reweight_var], self[K_reweight_bins])

Least(S) == CHOOSE m \in S : \A x \in S : m <= x

\* the smallest nonzero count of a label
Ref(label) ==
    LET c == Counted(label) IN Least({c[i] : i \in {j \in 1..Len(c) : c[j] > 0}})

\* the weights ref/count, 0 in the empty bins
Flattened(label) ==
    LET c == Counted(label)
    IN  [i \in 1..Len(c) |-> IF c[i] = 0 THEN <<0, 1>> ELSE Frac(Ref(label), c[i])]

\* C1 as stated: once _make_weights has run, every label has the weights
\* ref/count (0 in empty bins), and a label counted [50, 100, 0, 20] has the
\* weights [0.4, 0.2, 0, 1.0].
C1_AsStated ==
    pc # "make_weights" =>
        \A label \in Labels :
            /\ HasReweightInfo => reweight_info[label].hist = Flattened(label)
            /\ Counted(label) = <<50, 100, 0, 20>> =>
                  /\ HasReweightInfo
                  /\ reweight_info[label].hist = << <<2, 5>>, <<1, 5>>, <<0, 1>>, <<1, 1>> >>

\* C1 amended: whenever _prepare_reweight_info returns, every label has the
\* weights ref/count in its non-empty bins and 0 in its empty bins, ref being
\* its smallest nonzero count; counts [50, 0, 100, 20] give [0.4, 0, 0.2, 1.0],
\* while counts [50, 100, 0, 20] make the call raise, the empty bin being one
\* of the last two.
C1_BinWeights ==
    /\ HasReweightInfo =>
          \A label \in Labels :
              /\ reweight_info[label].hist = Flattened(label)
              /\ reweight_info[label].raw_hist =
                     [i \in 1..Len(Counted(label)) |-> <<Counted(label)[i], 1>>]
              /\ Counted(label) = <<50, 0, 100, 20>> =>
                     reweight_info[label].hist
                         = << <<2, 5>>, <<0, 1>>, <<1, 5>>, <<1, 1>> >>
    /\ (pc # "make_weights" /\ \E label \in Labels : Counted(label) = <<50, 100, 0, 20>>)
          => (pc = "failed" /\ ~HasReweightInfo)

C1_Witness ==
    /\ HasReweightInfo
    /\ Counted(label_A) = <<50, 0, 100, 20>>
    /\ reweight_info[label_A].hist = << <<2, 5>>, <<0, 1>>, <<1, 5>>, <<1, 1>> >>

\* the labels with fewer than 10 rows in one of the last two bins
TailShort ==
    {label \in Labels :
        LET c == Counted(label)
        IN  \E i \in 1..Len(c) : i >= Len(c) - 1 /\ c[i] < 10}

\* C2: _prepare_reweight_info raises, and no reweight info is stored, exactly
\* when some label has fewer than 10 rows in one of its last two bins.
C2_TailCheck ==
    pc # "make_weights" =>
        /\ pc \in {"failed", "make_infos"}
        /\ pc = "failed" <=> TailShort # {}
        /\ pc = "failed" <=> ~HasReweightInfo

C2_Witness ==
    /\ pc = "failed"
    /\ Counted(label_B) = <<100, 100, 5, 3>>
    /\ TailShort = {label_B}

\* C3: when _prepare_reweight_info returns, every label of label_branches has
\* the class weight (smallest reference count of all labels) / (its reference
\* count): a weight in (0, 1], equal to 1 for the labels of smallest
\* reference count; reference counts A: 20, B: 50 give 1.0 and 0.4.
C3_ClassWeights ==
    HasReweightInfo =>
        /\ DOMAIN reweight_info = Labels
        /\ \A label \in Labels :
              LET w == reweight_info[label].class_wgt
                  least == Least({Ref(l) : l \in Labels})
              IN  /\ w = Frac(least, Ref(label))
                  /\ 0 < w[1] /\ w[1] <= w[2]
                  /\ Ref(label) = least => w = <<1, 1>>
        /\ (Ref(label_A) = 20 /\ Ref(label_B) = 50) =>
              /\ reweight_info[label_A].class_wgt = <<1, 1>>
              /\ reweight_info[label_B].class_wgt = <<2, 5>>

C3_Witness ==
    /\ HasReweightInfo
    /\ Ref(label_A) = 20 /\ Ref(label_B) = 50
    /\ reweight_info[label_A].class_wgt = <<1, 1>>
    /\ reweight_info[label_B].class_wgt = <<2, 5>>

HasFilelist == K_total_events \in DOMAIN self
inputfiles == self[K_inputfiles]
num_events == self[K_num_events]

\* the place in the tree of a listed path, its directory and its file name
SlotOf(path) == CHOOSE s \in Slots : fullpath(s) = path
DirOf(path) == Walk[SlotOf(path)[1]].dp
NameOf(path) == Walk[SlotOf(path)[1]].filenames[SlotOf(path)[2]]

\* a call of updateFilelist with the given flag, by a caller or by produceMetadata
Called(test_sample) ==
    updateFilelist(test_sample) \/ (~test_sample /\ produce_updateFilelist)

\* C4: after any sequence of updateFilelist calls, inputfiles and num_events
\* have the same length, the i-th count is the count of the i-th file,
\* _total_events is the sum of the counts, and nothing of an earlier call is
\* left: no file is listed twice and the listed files are all of one mode.
C4_Filelist ==
    HasFilelist =>
        /\ Len(inputfiles) = Len(num_events)
        /\ \A i \in 1..Len(inputfiles) :
              /\ \E s \in DOMAIN fs : fullpath(s) = inputfiles[i]
              /\ num_events[i] = fs[SlotOf(inputfiles[i])]
        /\ self[K_total_events] = sum(num_events)
        /\ \A i, j \in 1..Len(inputfiles) :
              /\ inputfiles[i] = inputfiles[j] => i = j
              /\ "test_sample" \in Range(DirOf(inputfiles[i]))
                    <=> "test_sample" \in Range(DirOf(inputfiles[j]))

C4_Witness ==
    /\ pc = "idle" /\ HasFilelist
    /\ Len(inputfiles) = 2
    /\ num_events = <<3, 7>>
    /\ self[K_total_events] = 10
    /\ \A i \in 1..2 : "test_sample" \in Range(DirOf(inputfiles[i]))
    /\ \E s \in DOMAIN fs : "test_sample" \notin Range(Walk[s[1]].dp) /\ fs[s] # 0

\* the listed paths as C5 states them: the markers are looked for in the
\* file's path
PathsClean(test_sample) ==
    \A i \in 1..Len(inputfiles) :
        LET path == inputfiles[i]
        IN  /\ path[Len(path)] = ".root"
            /\ "failed" \notin Range(path)
            /\ "ignore" \notin Range(path)
            /\ test_sample <=> "test_sample" \in Range(path)

\* the same, the markers looked for in the path of the file's directory
DirsClean(test_sample) ==
    \A i \in 1..Len(inputfiles) :
        LET dp == DirOf(inputfiles[i])
            name == NameOf(inputfiles[i])
        IN  /\ name[Len(name)] = ".root"
            /\ "failed" \notin Range(dp)
            /\ "ignore" \notin Range(dp)
            /\ test_sample <=> "test_sample" \in Range(dp)

\* C5 as stated: updateFilelist lists only '.root' files whose path contains
\* neither 'failed' nor 'ignore', and whose path contains 'test_sample'
\* exactly when test_sample is set.
C5_AsStated ==
    [][\A test_sample \in BOOLEAN : Called(test_sample) => PathsClean(test_sample)']_vars

\* C5 amended: updateFilelist lists only files with the '.root' extension
\* whose directory path contains neither 'failed' nor 'ignore', and whose
\* directory path contains 'test_sample' exactly when test_sample is set; the
\* file's own name is not searched for the markers.
C5_Directories ==
    [][\A test_sample \in BOOLEAN : Called(test_sample) => DirsClean(test_sample)']_vars

C5_Witness ==
    /\ pc = "make_varlist"
    /\ inputfiles = << <<"in", "/", "failed", ".root">>,
                       <<"in", "/", "test_sample", ".root">> >>
    /\ <<2, 1>> \in DOMAIN fs /\ fs[<<2, 1>>] # 0

\* a file updateFilelist(test_sample) has to consider
Eligible(s, test_sample) ==
    LET dp == Walk[s[1]].dp
        name == Walk[s[1]].filenames[s[2]]
    IN  /\ name[Len(name)] = ".root"
        /\ "failed" \notin Range(dp)
        /\ "ignore" \notin Range(dp)
        /\ test_sample <=> "test_sample" \in Range(dp)

\* C6: a candidate file whose count is zero is left out of inputfiles and
\* num_events and does not end the scan: every other candidate with a nonzero
\* count is listed, and no count in num_events is zero.
C6_SkipFalsy ==
    [][\A test_sample \in BOOLEAN : Called(test_sample) =>
          /\ \A i \in 1..Len(num_events') : num_events'[i] # 0
          /\ \A s \in DOMAIN fs :
                /\ fs[s] = 0 => fullpath(s) \notin Range(inputfiles')
                /\ (Eligible(s, test_sample) /\ fs[s] # 0)
                      => fullpath(s) \in Range(inputfiles')]_vars

C6_Witness ==
    /\ pc = "idle" /\ HasFilelist
    /\ <<1, 1>> \in DOMAIN fs /\ fs[<<1, 1>>] = 0
    /\ inputfiles = << <<"in", "/", "failed", ".root">> >>
    /\ num_events = <<7>>

HasVarlist == K_var_branches \in DOMAIN self
var_branches == self[K_var_branches]
var_sizes == self[K_var_sizes]

\* the fields _make_varlist has to drop
Dropped == Range(self[K_var_blacklist]) \cup Range(self[K_label_branches])

\* C7: after _make_varlist no field of the blacklist or of the label list is
\* in var_branches, even when a group selects it.
C7_Removal ==
    HasVarlist => \A i \in 1..Len(var_branches) : var_branches[i] \notin Dropped

C7_Witness ==
    /\ HasVarlist
    /\ fj_eta \in DOMAIN var_sizes /\ fj_eta \in Range(self[K_var_blacklist])
    /\ label_B \in DOMAIN var_sizes
    /\ Len(var_branches) > 0
    /\ \A i \in 1..Len(var_branches) : var_branches[i] \notin {fj_eta, label_B}

\* the places in the iteration order of the groups with a pattern matching k
MatchingGroups(k) ==
    {g \in 1..Len(group_order) :
        \E i \in 1..Len(self[K_var_groups][group_order[g]].items[1]) :
            re_match(self[K_var_groups][group_order[g]].items[1][i], k)}

\* C8: _make_varlist selects a field exactly when some pattern of some group
\* matches it, records as its size the size of the first matching group,
\* leaves out the fields no group matches, and var_branches holds the selected
\* fields that are not dropped once each, in the order of the schema.
C8_Selection ==
    HasVarlist =>
        LET Kept(k) == MatchingGroups(k) # {} /\ k \notin Dropped
        IN  /\ self[K_all_branches] = schema
            /\ DOMAIN var_sizes = {k \in Range(schema) : MatchingGroups(k) # {}}
            /\ \A k \in DOMAIN var_sizes :
                  var_sizes[k] =
                      self[K_var_groups][group_order[Least(MatchingGroups(k))]].items[2]
            /\ var_branches = SelectSeq(schema, Kept)

C8_Witness ==
    /\ HasVarlist
    /\ schema = <<label_A, fj_eta, fj_pt>>
    /\ group_order = <<"pt", "fj">>
    /\ MatchingGroups(fj_pt) = {1, 2}
    /\ MatchingGroups(label_A) = {}
    /\ DOMAIN var_sizes = {fj_eta, fj_pt}
    /\ var_sizes[fj_pt] = 50
    /\ var_branches = <<fj_eta, fj_pt>>

\* the stages of produceMetadata in the order of its body
Order == <<"updateFilelist", "_make_varlist", "_make_weights", "_make_infos",
           "writeMetadata">>

\* what the four stages leave in the object
StageOutputs ==
    {K_inputfiles, K_num_events, K_total_events, K_all_branches, K_var_branches,
     K_var_sizes, K_reweight_info, K_branches_info}

\* C9: produceMetadata runs file enumeration, variable selection, reweighting
\* and statistics in this order and writes the document only after all four
\* have completed; once a stage has aborted there is no document, so no
\* document lacks the output of a stage.
C9_Order ==
    /\ Len(stages) <= Len(Order) /\ stages = SubSeq(Order, 1, Len(stages))
    /\ doc.written =>
          /\ pc = "done" /\ stages = Order
          /\ StageOutputs \subseteq DOMAIN doc.md
    /\ pc = "failed" => (~doc.written /\ Len(stages) < 4)
    /\ pc = "writeMetadata" => (Len(stages) = 4 /\ StageOutputs \subseteq DOMAIN self)
    /\ HasReweightInfo => (HasVarlist /\ HasFilelist)
    /\ K_branches_info \in DOMAIN self => HasReweightInfo

\* reweighting aborted on the last bins of label B: nothing is written
C9_Witness ==
    /\ pc = "failed"
    /\ stages = <<"updateFilelist", "_make_varlist">>
    /\ TailShort = {label_B}
    /\ ~doc.written /\ ~HasReweightInfo

\* the private attributes of the document leave the loading object as it was
PrivateKept ==
    \A k \in DOMAIN doc.md :
        k[1] = "_" =>
            IF k \in DOMAIN ldBefore.dict THEN ld[k] = ldBefore.dict[k]
            ELSE k \notin DOMAIN ld

\* C10 as stated: after loadMetadata every attribute of the document whose
\* name does not start with '_' equals, in the loading object, the value that
\* was written, and the attributes whose name starts with '_' are as before.
C10_AsStated ==
    ldBefore.called =>
        /\ \A k \in DOMAIN doc.md : k[1] # "_" => (k \in DOMAIN ld /\ ld[k] = self[k])
        /\ PrivateKept

\* C10 amended: after loadMetadata every attribute of the document whose name
\* does not start with '_' equals, in the loading object, the value that was
\* written, a tuple being read back as a list of the same items (the values
\* of var_groups); the attributes whose name starts with '_' are never
\* assigned and are as they were before the load.
C10_RoundTrip ==
    ldBefore.called =>
        /\ \A k \in DOMAIN doc.md :
              k[1] # "_" =>
                  /\ k \in DOMAIN ld
                  /\ IF k = K_var_groups
                     THEN /\ DOMAIN ld[k] = DOMAIN self[k]
                          /\ \A n \in DOMAIN self[k] :
                                /\ ld[k][n].items = self[k][n].items
                                /\ self[k][n].kind = "tuple" /\ ld[k][n].kind = "list"
                     ELSE ld[k] = self[k]
        /\ PrivateKept

C10_Witness ==
    /\ ldBefore.called
    /\ K_branches_info \notin DOMAIN ldBefore.dict
    /\ ld[K_inputdir] = <<"elsewhere">> /\ self[K_inputdir] = <<"in">>
    /\ K_total_events \notin DOMAIN ld
    /\ Len(ld[K_inputfiles]) = 2 /\ ld[K_inputfiles] = self[K_inputfiles]
    /\ ld[K_reweight_info] = self[K_reweight_info]
    /\ DOMAIN ld[K_var_groups] = {"fj", "pfcand"}

\* ---- C11: the rows behind a label's histogram ----

\* the stored per-bin counts of a label (raw_hist is never reweighted)
RawHist(label) == reweight_info[label].raw_hist

\* the sampled rows in bin i of the reweight variable whose label field is
\* not zero, and those whose label field is one
NonzeroRows(label, i) ==
    BagSum(rec, {r \in DOMAIN rec : r[label] # 0
                     /\ InBin(r[self[K_reweight_var]], self[K_reweight_bins], i)})

OneRows(label, i) ==
    BagSum(rec, {r \in DOMAIN rec : r[label] = 1
                     /\ InBin(r[self[K_reweight_var]], self[K_reweight_bins], i)})

\* C11 as stated: once _make_weights has run, each label's histogram counts,
\* bin by bin, exactly the sampled rows whose label field is nonzero: a row
\* with any nonzero value of the label field is counted, a row with zero is not.
C11_AsStated ==
    HasReweightInfo =>
        \A label \in Labels : \A i \in 1..Len(RawHist(label)) :
            RawHist(label)[i] = asfloat(NonzeroRows(label, i))

\* C11: once _make_weights has run, each label's histogram counts, bin by bin,
\* exactly the sampled rows whose label field equals 1; a row whose label field
\* is zero or any other value (such as 2) is not counted for that label.
C11_LabelIsOne ==
    HasReweightInfo =>
        \A label \in Labels : \A i \in 1..Len(RawHist(label)) :
            RawHist(label)[i] = asfloat(OneRows(label, i))

\* the histogram of label_A was stored from a sample holding 12 rows with
\* label_A = 2 in the last of four bins: 27 rows are counted there, 39 rows
\* have a nonzero label_A
C11_Witness ==
    /\ HasReweightInfo
    /\ Row(2, 0, 3) \in DOMAIN rec /\ rec[Row(2, 0, 3)] = 12
    /\ Len(RawHist(label_A)) = 4
    /\ RawHist(label_A)[4] = <<27, 1>>
    /\ OneRows(label_A, 4) = 27 /\ NonzeroRows(label_A, 4) = 39

\* ---- C12: the files sampled for the statistics ----

\* _make_infos has run: it completed, or it is the stage that raised
InfosRan ==
    \/ Len(stages) >= 4
    \/ pc = "failed" /\ stages = <<"updateFilelist", "_make_varlist", "_make_weights">>

\* a positive target of sampled events, a non-empty file list and a positive
\* total of events
SamplingAsked ==
    /\ self[K_metadata_events] > 0
    /\ Len(self[K_inputfiles]) > 0
    /\ self[K_total_events] > 0

\* C12 as stated: whenever _make_infos has run with a positive target of
\* sampled events, a non-empty file list and a positive total of events, the
\* kept subset of the shuffled files is non-empty, the kept files hold a
\* positive number of events, and no division by zero was raised.
C12_AsStated ==
    (InfosRan /\ SamplingAsked) =>
        /\ Len(sample.inputfiles) > 0
        /\ sum(sample.num_events) > 0
        /\ sample.exc # "ZeroDivisionError"

====
